---- MODULE Spec2Model ----
(***************************************************************************)
(* A model of the zig-devel toolset: the fleet scanner (cmd_scan.py,       *)
(* github.py) and the version consistency check (cmd_libcheck.py).         *)
(*                                                                         *)
(* Text is modelled as a sequence of one-character strings, so that the    *)
(* regular expressions, sed scripts and grep patterns of the code are      *)
(* computed character by character.                                        *)
(***************************************************************************)
EXTENDS Integers, Sequences, FiniteSets, TLC

VARIABLES
    options,    \* --github-org and --github-token, as the operator gives them to every scan
    directory,  \* the organization's repositories as the API serves them: a sequence of pages
    remoteRev,  \* per repository: the revision its remote branches are at
    cacheDir,   \* the cache directory exists
    reposFile,  \* {cacheDir}/repos.jsonl: whether it exists, and its lines
    wc,         \* per repository name: the working copy {cacheDir}/{name}
    pc,         \* position of the scan: "start", "inspect", "policy", "fresh", "exited"
    args,       \* the flags of the scan in progress (or of the last one)
    repos,      \* the list json.load returned to the loop of run
    idx,        \* the loop's position in repos
    exit,       \* exit status of the last scan (meaningful when pc = "exited")
    errlog,     \* what the scan in progress logged as an error, or how it crashed
    requests,   \* the directory-API requests of the scan in progress
    synced,     \* names whose working copy this scan synchronized, in order
    policed,    \* names whose settings this scan checked, in order
    freshed,    \* names for which this scan ran nvchecker and nvcmp, in order
    usedCache,  \* this scan found the cache directory and did not fetch
    found,      \* while pc = "policy": the working copy as the synchronization found it
    listed,    \* the list fetch_repos returned to the scan that wrote repos.jsonl
    invoked,    \* the runs of nvchecker and nvcmp by the scan in progress, in order
    vpc,        \* check_versioning: "input" before the call, "done" after it
    vin,        \* check_versioning: what it reads (argument, files, git)
    vout,       \* check_versioning: its outcome
    crawlPc,    \* fetch_repos step by step: "off", "request", "done", "failed"
    crawlPage,  \* fetch_repos: page
    crawlRepositories,  \* fetch_repos: repositories
    crawlSent,  \* fetch_repos: the requests sent so far
    endless,    \* the API serves a non-empty page for every page past the directory
    zig,        \* libcheck run: local.get("zig") is not None
    run_tests,  \* libcheck run: args.run_tests
    bpc,        \* libcheck run after check_versioning: "off", "build", "tests", "done", "exited"
    ti,         \* crosscompile: the position of triplet in triplets
    mi,         \* crosscompile: the position of optimize in modes
    built,      \* the (triplet, optimize) pairs zig build was run for, in order
    bexit       \* the exit code of a libcheck run ended by cmd

scanVars == <<options, directory, remoteRev, cacheDir, reposFile, wc, pc, args, repos, idx,
              exit, errlog, requests, synced, policed, freshed, usedCache, found,
              invoked, listed>>
verVars == <<vpc, vin, vout>>
crawlVars == <<crawlPc, crawlPage, crawlRepositories, crawlSent, endless>>
buildVars == <<zig, run_tests, bpc, ti, mi, built, bexit>>
vars == <<scanVars, verVars, buildVars, crawlVars>>

(***************************************************************************)
(* Text helpers                                                            *)
(***************************************************************************)
Digit == {"0", "1", "2", "3", "4", "5", "6", "7", "8", "9"}
NonZeroDigit == Digit \ {"0"}
WhiteSpace == {" ", "\n", "\t"}

MaxOf(S) == CHOOSE x \in S : \A y \in S : y <= x
MinOf(S) == CHOOSE x \in S : \A y \in S : x <= y

\* str.strip()
RECURSIVE LStrip(_)
LStrip(s) == IF s # <<>> /\ Head(s) \in WhiteSpace THEN LStrip(Tail(s)) ELSE s
RECURSIVE RStrip(_)
RStrip(s) ==
    IF s # <<>> /\ s[Len(s)] \in WhiteSpace
    THEN RStrip(SubSeq(s, 1, Len(s) - 1))
    ELSE s
Strip(s) == RStrip(LStrip(s))

(***************************************************************************)
(* cmd_libcheck.check_versioning                                           *)
(***************************************************************************)
\* NumberEnds with number_regex written "[0-9]+": leading zeros pass.
NumberEndsAnyDigits(s, i) ==
    IF i <= Len(s) /\ s[i] \in Digit
    THEN {j \in (i + 1)..(Len(s) + 1) : \A k \in (i + 1)..(j - 1) : s[k] \in Digit}
    ELSE {}

\* number_regex = "(0|[1-9][0-9]*)": the positions just after a match that
\* starts at position i of s.
NumberEnds(s, i) ==
    (IF i <= Len(s) /\ s[i] = "0" THEN {i + 1} ELSE {})
    \cup
    (IF i <= Len(s) /\ s[i] \in NonZeroDigit
     THEN {j \in (i + 1)..(Len(s) + 1) : \A k \in (i + 1)..(j - 1) : s[k] \in Digit}
     ELSE {})

\* Python's "$": the end of the text, or just before a final newline.
AtEnd(s, j) == j = Len(s) + 1 \/ (j = Len(s) /\ s[j] = "\n")

LitAt(s, j, c) == j <= Len(s) /\ s[j] = c

\* re.search(version_regex, s) is not None, with
\* version_regex = ^{N}\.{N}\.{N}-{N}$
VersionRegexSearch(s) ==
    \E a \in NumberEnds(s, 1) : LitAt(s, a, ".") /\
    \E b \in NumberEnds(s, a + 1) : LitAt(s, b, ".") /\
    \E c \in NumberEnds(s, b + 1) : LitAt(s, c, "-") /\
    \E d \in NumberEnds(s, c + 1) : AtEnd(s, d)

\* SubBuildSuffix with the pattern written without its "-": the number is
\* cut and the dash stays.
SubBuildNumberOnly(s) ==
    LET starts == {i \in 1..Len(s) : \E e \in NumberEnds(s, i) : AtEnd(s, e)}
    IN  IF starts = {} THEN s ELSE SubSeq(s, 1, MinOf(starts) - 1)

\* re.sub(f"-{number_regex}$", "", s): the leftmost "-" from which a number
\* runs to the end is cut, with the number.
BuildSuffixStarts(s) ==
    {i \in 1..Len(s) : s[i] = "-" /\ \E e \in NumberEnds(s, i + 1) : AtEnd(s, e)}

SubBuildSuffix(s) ==
    IF BuildSuffixStarts(s) = {}
    THEN s
    ELSE LET i == MinOf(BuildSuffixStarts(s))
             e == MaxOf({e \in NumberEnds(s, i + 1) : AtEnd(s, e)})
         IN  SubSeq(s, 1, i - 1) \o SubSeq(s, e, Len(s))

\* [0-9.]* from position i of line: the longest run of digits and dots.
RECURSIVE VersionRun(_, _)
VersionRun(line, i) ==
    IF i <= Len(line) /\ line[i] \in (Digit \cup {"."})
    THEN <<line[i]>> \o VersionRun(line, i + 1)
    ELSE <<>>

\* head -1 | sed -n "s/^# .*@v\([0-9.]*\).*/\1/p": ".*" is greedy, so the
\* last "@v" of the line is the one taken; a line that does not match
\* prints nothing.
AtVPositions(line) ==
    {k \in 3..(Len(line) - 1) : line[k] = "@" /\ line[k + 1] = "v"}

HeaderSed(line) ==
    IF Len(line) >= 2 /\ line[1] = "#" /\ line[2] = " " /\ AtVPositions(line) # {}
    THEN VersionRun(line, MaxOf(AtVPositions(line)) + 2)
    ELSE <<>>

FirstLine(readme) == IF readme = <<>> THEN <<>> ELSE readme[1]

\* grep's basic regular expressions, as far as the install pattern uses
\* them: "^" and "$" anchors, "." for any character, "x*" repetition, and
\* literal characters.
BreAtom(a, c) == a = "." \/ a = c

\* pat[p..q], which holds no "*", matches line from position i on.
BreSegment(pat, p, q, line, i) ==
    \A k \in 0..(q - p) : i + k <= Len(line) /\ BreAtom(pat[p + k], line[i + k])

\* pat from position p on matches line from position i on: the atoms up to
\* the next starred one match one character each, the starred atom any
\* number of characters, and the rest what follows.
RECURSIVE BreMatch(_, _, _, _)
BreMatch(pat, p, line, i) ==
    LET starred == {q \in p..(Len(pat) - 1) : pat[q + 1] = "*"}
        anchored == Len(pat) >= p /\ pat[Len(pat)] = "$"
        last == IF anchored THEN Len(pat) - 1 ELSE Len(pat)
    IN  IF starred = {}
        THEN /\ BreSegment(pat, p, last, line, i)
             /\ anchored => i + (last - p + 1) = Len(line) + 1
        ELSE LET q == MinOf(starred)
                 from == i + (q - p)
             IN  /\ BreSegment(pat, p, q - 1, line, i)
                 /\ \E j \in from..(Len(line) + 1) :
                      /\ \A k \in from..(j - 1) : BreAtom(pat[q], line[k])
                      /\ BreMatch(pat, q + 2, line, j)

GrepLine(pat, line) ==
    IF pat # <<>> /\ pat[1] = "^"
    THEN BreMatch(pat, 2, line, 1)
    ELSE \E i \in 1..(Len(line) + 1) : BreMatch(pat, 1, line, i)

\* grep -q pattern README.md: exit status 0 iff some line matches.
GrepQuiet(pat, readme) == \E n \in 1..Len(readme) : GrepLine(pat, readme[n])

ZigFetchSave == <<"z", "i", "g", " ", "f", "e", "t", "c", "h", " ",
                  "-", "-", "s", "a", "v", "e", " ">>
ArchiveRefsTags == <<"/", "a", "r", "c", "h", "i", "v", "e", "/",
                     "r", "e", "f", "s", "/", "t", "a", "g", "s", "/">>
TarGz == <<".", "t", "a", "r", ".", "g", "z">>

\* f"^zig fetch --save .*/archive/refs/tags/{package_ref}.tar.gz$"
InstallPattern(package_ref) ==
    <<"^">> \o ZigFetchSave \o <<".", "*">> \o ArchiveRefsTags
            \o package_ref \o TarGz \o <<"$">>

NoText == <<>>

\* upstream_version, line 21
UpstreamVersion(package_ref) == Strip(SubBuildSuffix(package_ref))

\* check_versioning(reference), as a function of what it reads: the sed
\* output for build.zig.zon, the newest merged tag, the version of
\* .github/oldver.json and the lines of README.md.  The result is the exit
\* status (0: returned), the check that failed and the values its error
\* message carries.
Outcome(code, failed, logged) == [exit |-> code, failed |-> failed, logged |-> logged]

\* CheckVersioning with the README header compared before the tracker.
CheckVersioningHeaderFirst(reference, sed_out, tag_out, oldver, readme) ==
    LET package_ref == Strip(sed_out)
        upstream_version == UpstreamVersion(package_ref)
        gittag_ref == Strip(tag_out)
        readme_version == Strip(HeaderSed(FirstLine(readme)))
    IN  IF ~VersionRegexSearch(package_ref)
        THEN Outcome(1, "grammar", <<package_ref>>)
        ELSE IF reference # NoText /\ reference # package_ref
        THEN Outcome(1, "reference", <<package_ref, reference>>)
        ELSE IF gittag_ref # NoText /\ gittag_ref # package_ref
        THEN Outcome(1, "tag", <<package_ref, gittag_ref>>)
        ELSE IF upstream_version # readme_version
        THEN Outcome(1, "header", <<upstream_version, readme_version>>)
        ELSE IF upstream_version # oldver
        THEN Outcome(1, "tracker", <<upstream_version, oldver>>)
        ELSE IF ~GrepQuiet(InstallPattern(package_ref), readme)
        THEN Outcome(1, "install", <<>>)
        ELSE Outcome(0, "none", <<>>)

CheckVersioning(reference, sed_out, tag_out, oldver, readme) ==
    LET package_ref == Strip(sed_out)
        upstream_version == UpstreamVersion(package_ref)
        gittag_ref == Strip(tag_out)
        readme_version == Strip(HeaderSed(FirstLine(readme)))
    IN  IF ~VersionRegexSearch(package_ref)
        THEN Outcome(1, "grammar", <<package_ref>>)
        ELSE IF reference # NoText /\ reference # package_ref
        THEN Outcome(1, "reference", <<package_ref, reference>>)
        ELSE IF gittag_ref # NoText /\ gittag_ref # package_ref
        THEN Outcome(1, "tag", <<package_ref, gittag_ref>>)
        ELSE IF upstream_version # oldver
        THEN Outcome(1, "tracker", <<upstream_version, oldver>>)
        ELSE IF upstream_version # readme_version
        THEN Outcome(1, "header", <<upstream_version, readme_version>>)
        ELSE IF ~GrepQuiet(InstallPattern(package_ref), readme)
        THEN Outcome(1, "install", <<>>)
        ELSE Outcome(0, "none", <<>>)

(***************************************************************************)
(* github.py: Repository and GitHub                                        *)
(***************************************************************************)
\* A Repository, with the fields the scan reads.  clone_url is a function
\* of the name; the timestamps and open_issues_count are carried from the
\* API to the cache and never read, and are left out.
Repo(name, private, archived, is_template, default_branch, has_issues, has_wiki, has_pages, has_projects, has_discussions) ==
    [name |-> name, private |-> private, archived |-> archived,
     is_template |-> is_template, default_branch |-> default_branch,
     has_issues |-> has_issues, has_wiki |-> has_wiki, has_pages |-> has_pages,
     has_projects |-> has_projects, has_discussions |-> has_discussions]

\* Repository.is_active
IsActive(repo) == ~repo.private /\ ~repo.archived

\* GitHub.github_repository, toolset_repository, internal_repositories
InternalRepositories == {".github", "toolset"}

None == "None"
DefaultOrg == "zig-devel"

\* GitHub.__init__(org, token): both assignments are guarded by org.
GitHubInit(org, token) ==
    [org |-> IF org # None THEN org ELSE DefaultOrg,
     token |-> IF org # None THEN token ELSE None]

\* The page the API answers to ?per_page=100&page=n: the pages after the
\* last one are empty.
ApiPage(n) == IF n <= Len(directory) THEN directory[n] ELSE <<>>

\* The header built whether there is a token or not.
HeadersAlways(gh) == {[name |-> "Authorization", value |-> <<"Bearer", gh.token>>]}

\* hdrs of fetch_repos
Headers(gh) ==
    IF gh.token = None
    THEN {}
    ELSE {[name |-> "Authorization", value |-> <<"Bearer", gh.token>>]}

Request(gh, page) == [org |-> gh.org, per_page |-> 100, page |-> page, headers |-> Headers(gh)]

\* GitHub.fetch_repos: the loop from the given page on, with the
\* repositories and the requests so far.  failAt is the page whose request
\* is answered with an error status (0: none): raise_for_status raises and
\* nothing is returned.
\* The loop's exit test taken for "the page is not full".
EndOfListingShortPage(data) == Len(data) < 100

\* fetch_repos, line 99: if len(data) <= 0: break
EndOfListing(data) == Len(data) <= 0

\* A response whose status is never looked at.
RaiseForStatusNever(page, failAt) == FALSE

\* fetch_repos, line 96: resp.raise_for_status() raises for the page that
\* was answered with an error status.
RaiseForStatus(page, failAt) == page = failAt

RECURSIVE FetchLoop(_, _, _, _, _)
FetchLoop(gh, failAt, page, repositories, reqs) ==
    LET sent == Append(reqs, Request(gh, page))
        data == ApiPage(page)
    IN  IF RaiseForStatus(page, failAt)
        THEN [ok |-> FALSE, repos |-> <<>>, requests |-> sent]
        ELSE IF EndOfListing(data)
        THEN [ok |-> TRUE, repos |-> repositories, requests |-> sent]
        ELSE FetchLoop(gh, failAt, page + 1, repositories \o data, sent)

FetchRepos(gh, failAt) == FetchLoop(gh, failAt, 1, <<>>, <<>>)

(***************************************************************************)
(* cmd_scan.py                                                             *)
(***************************************************************************)
Names == {".github", "toolset", "zlib", "lz4"}

\* A file: whether it exists and its lines.  A line of JSON text is
\* modelled by the value it denotes.
NoFile == [exists |-> FALSE, lines |-> <<>>]
EmptyFile == [exists |-> TRUE, lines |-> <<>>]

\* dataclasses.asdict and Repository(**repo)
AsDict(repo) == [f \in DOMAIN repo |-> repo[f]]
FromDict(d) == [f \in DOMAIN d |-> d[f]]

\* The fields of Repository declared bool; the others modelled are str.
BoolFields == {"private", "archived", "is_template", "has_issues", "has_wiki",
               "has_pages", "has_projects", "has_discussions"}

\* The JSON text of a field's value: true or false for a bool, the quoted
\* text for a str.
JsonText(field, value) ==
    IF field \in BoolFields
    THEN (IF value THEN <<"true">> ELSE <<"false">>)
    ELSE <<"\"", value, "\"">>

\* A decoder for which every boolean text is true.
JsonValueTruthy(text) == IF text[1] = "\"" THEN text[2] ELSE TRUE

\* The value a JSON text denotes.
JsonValue(text) == IF text[1] = "\"" THEN text[2] ELSE text = <<"true">>

\* json.dump(list, fd): the whole list as one JSON array of objects, on
\* one line.
JsonDump(list) ==
    [exists |-> TRUE,
     lines |-> <<[json |-> "array",
                  items |-> [i \in 1..Len(list) |->
                               [f \in DOMAIN list[i] |-> JsonText(f, list[i][f])]]]>>]

\* json.load(fd): the file must hold exactly one JSON value.
JsonLoad(file) ==
    IF file.exists /\ Len(file.lines) = 1 /\ file.lines[1].json = "array"
    THEN [ok |-> TRUE,
          value |-> [i \in 1..Len(file.lines[1].items) |->
                       [f \in DOMAIN file.lines[1].items[i] |->
                          JsonValue(file.lines[1].items[i][f])]]]
    ELSE [ok |-> FALSE, value |-> <<>>]

\* A working copy: the branch it was cloned for, the revision origin/branch
\* was last fetched at, the revision checked out, and the kinds of local
\* drift in it.
DriftKinds == {"modified", "untracked", "ignored"}
NoWorkingCopy == [exists |-> FALSE, branch |-> "", origin |-> 0, head |-> 0, drift |-> {}]

\* git clone --depth 1 --branch b url dir
GitClone(name, branch) ==
    [exists |-> TRUE, branch |-> branch, origin |-> remoteRev[name],
     head |-> remoteRev[name], drift |-> {}]

\* git fetch -q origin
GitFetch(name, w) == [w EXCEPT !.origin = remoteRev[name]]

\* git reset -q --hard origin/b: needs the ref origin/b, which a
\* single-branch clone has for its own branch only.
GitResetOk(w, branch) == w.branch = branch
GitReset(w) == [w EXCEPT !.head = w.origin, !.drift = w.drift \ {"modified"}]

\* GitClean without -x: the ignored files stay.
GitCleanNoX(w) == [w EXCEPT !.drift = w.drift \ {"untracked"}]

\* git clean -q -xd --force
GitClean(w) == [w EXCEPT !.drift = w.drift \ {"untracked", "ignored"}]

\* Sync with the reset run before the fetch.
SyncResetFirst(w, repo) ==
    IF w.exists
    THEN IF GitResetOk(w, repo.default_branch)
         THEN [ok |-> TRUE, wc |-> GitClean(GitFetch(repo.name, GitReset(w)))]
         ELSE [ok |-> FALSE, wc |-> w]
    ELSE [ok |-> TRUE, wc |-> GitClone(repo.name, repo.default_branch)]

\* inspect_package, lines 31-49: the working copy after the
\* synchronization, and whether every git command succeeded.
Sync(w, repo) ==
    IF w.exists
    THEN IF GitResetOk(w, repo.default_branch)
         THEN [ok |-> TRUE, wc |-> GitClean(GitReset(GitFetch(repo.name, w)))]
         ELSE [ok |-> FALSE, wc |-> GitFetch(repo.name, w)]
    ELSE [ok |-> TRUE, wc |-> GitClone(repo.name, repo.default_branch)]

\* Settings that are never found wrong.
SettingsViolationNone(repo) == <<>>

\* SettingsViolation without its last rule.
SettingsViolationNoDiscussions(repo) ==
    IF repo.default_branch # "main"
    THEN <<"Default branch must me 'main' not ", repo.default_branch>>
    ELSE IF repo.is_template THEN <<"Repository should not be a template">>
    ELSE IF ~repo.has_issues THEN <<"Issues must be enabled">>
    ELSE IF repo.has_wiki THEN <<"Wiki must be disabled">>
    ELSE IF repo.has_pages THEN <<"Pages must be disabled">>
    ELSE IF repo.has_projects THEN <<"Projects must be disabled">>
    ELSE <<>>

\* inspect_package, lines 51-68: the message of the PkgSettingsException
\* raised, or NoText.
SettingsViolation(repo) ==
    IF repo.default_branch # "main"
    THEN <<"Default branch must me 'main' not ", repo.default_branch>>
    ELSE IF repo.is_template THEN <<"Repository should not be a template">>
    ELSE IF ~repo.has_issues THEN <<"Issues must be enabled">>
    ELSE IF repo.has_wiki THEN <<"Wiki must be disabled">>
    ELSE IF repo.has_pages THEN <<"Pages must be disabled">>
    ELSE IF repo.has_projects THEN <<"Projects must be disabled">>
    ELSE IF repo.has_discussions THEN <<"Discussions must be disabled">>
    ELSE NoText

\* IsSkipped without the test on the internal repositories.
IsSkippedInactiveOnly(repo) == ~IsActive(repo)

\* inspect_package, line 26
IsSkipped(repo) == ~IsActive(repo) \/ repo.name \in InternalRepositories

Idle == pc = "start"
CurrentRepo == FromDict(repos[idx])

\* What ended the scan: the exception raised and the message logged for it.
NoError == [raised |-> "none", logged |-> NoText]

\* An uncaught exception ends the interpreter with a traceback and status 1.
\* An exception that ends the scan with status 0.
CrashExitZero(exception) ==
    /\ pc' = "exited"
    /\ exit' = 0
    /\ errlog' = [raised |-> exception, logged |-> NoText]

Crash(exception) ==
    /\ pc' = "exited"
    /\ exit' = 1
    /\ errlog' = [raised |-> exception, logged |-> NoText]

\* Fail with the error logged and the scan ended, but with status 0.
FailExitZero(exception, err) ==
    /\ pc' = "exited"
    /\ exit' = 0
    /\ errlog' = [raised |-> exception, logged |-> err]

\* run, lines 97-99: logging.error(err); sys.exit(1)
Fail(exception, err) ==
    /\ pc' = "exited"
    /\ exit' = 1
    /\ errlog' = [raised |-> exception, logged |-> err]

\* run, lines 79-93: the cache is cleared if asked, then read if its
\* directory exists and fetched and saved if not, then loaded.  failAt is
\* the page the API fails at.
\* LoadOrFetch without the test of the cache directory.
LoadOrFetchAlways(dir, file, gh, failAt) ==
    LET fetched == FetchRepos(gh, failAt)
    IN  IF fetched.ok
        THEN [file |-> JsonDump([i \in 1..Len(fetched.repos) |-> AsDict(fetched.repos[i])]),
              requests |-> fetched.requests, raised |-> FALSE]
        ELSE [file |-> EmptyFile, requests |-> fetched.requests, raised |-> TRUE]

\* run, lines 84-90: with the cache directory, repos.jsonl is left as it
\* is; without it, the directory is made, the file opened for writing and
\* the fetched list dumped into it, an exception of the fetch leaving the
\* file empty.
LoadOrFetch(dir, file, gh, failAt) ==
    LET fetched == FetchRepos(gh, failAt)
    IN  IF dir
        THEN [file |-> file, requests |-> <<>>, raised |-> FALSE]
        ELSE IF fetched.ok
        THEN [file |-> JsonDump([i \in 1..Len(fetched.repos) |-> AsDict(fetched.repos[i])]),
              requests |-> fetched.requests, raised |-> FALSE]
        ELSE [file |-> EmptyFile, requests |-> fetched.requests, raised |-> TRUE]

\* A clear made whether it was asked for or not.
ClearCacheAlways(clear_cache, cache) ==
    [dir |-> FALSE, file |-> NoFile, wc |-> [n \in Names |-> NoWorkingCopy]]

\* A clear that removes repos.jsonl alone.
ClearCacheFileOnly(clear_cache, cache) ==
    IF clear_cache THEN [cache EXCEPT !.file = NoFile] ELSE cache

\* run, lines 79-80: shutil.rmtree(args.cache_dir, ignore_errors=True), on
\* the cache directory with repos.jsonl and the working copies in it.
ClearCache(clear_cache, cache) ==
    IF clear_cache
    THEN [dir |-> FALSE, file |-> NoFile, wc |-> [n \in Names |-> NoWorkingCopy]]
    ELSE cache

RunStart(clear_cache, check_updates, check_repository_settings, failAt) ==
    /\ Idle
    /\ LET cleared == ClearCache(clear_cache, [dir |-> cacheDir, file |-> reposFile, wc |-> wc])
           dir0 == cleared.dir
           file0 == cleared.file
           wc0 == cleared.wc
           gh == GitHubInit(options.github_org, options.github_token)
           got == LoadOrFetch(dir0, file0, gh, failAt)
           loaded == JsonLoad(got.file)
       IN  /\ cacheDir' = TRUE
           /\ reposFile' = got.file
           /\ wc' = wc0
           /\ usedCache' = dir0
           /\ requests' = got.requests
           /\ args' = [clear_cache |-> clear_cache, check_updates |-> check_updates,
                       check_repository_settings |-> check_repository_settings]
           /\ synced' = <<>>
           /\ policed' = <<>>
           /\ freshed' = <<>>
           /\ invoked' = <<>>
           /\ listed' = (IF dir0 THEN listed ELSE FetchRepos(gh, failAt).repos)
           /\ IF got.raised
              THEN Crash("HTTPError") /\ repos' = <<>> /\ idx' = 1
              ELSE IF ~loaded.ok
              THEN Crash("JSONDecodeError") /\ repos' = <<>> /\ idx' = 1
              ELSE /\ pc' = "inspect"
                   /\ repos' = loaded.value
                   /\ idx' = 1
                   /\ exit' = 0
                   /\ errlog' = NoError
    /\ UNCHANGED <<options, directory, remoteRev, found, verVars, buildVars, crawlVars>>

\* inspect_package, line 26: an inactive or internal repository is left
\* alone and the loop goes on.
InspectSkip ==
    /\ pc = "inspect"
    /\ idx <= Len(repos)
    /\ IsSkipped(CurrentRepo)
    /\ idx' = idx + 1
    /\ UNCHANGED <<options, listed, directory, remoteRev, cacheDir, reposFile, wc, pc, args, repos,
                   exit, errlog, requests, synced, policed, freshed, usedCache, found,
                   verVars, buildVars, crawlVars, invoked>>

\* inspect_package, lines 29-49: the working copy is updated or cloned.
\* transport is whether the remote answered the git commands.
InspectSync(transport) ==
    /\ pc = "inspect"
    /\ idx <= Len(repos)
    /\ ~IsSkipped(CurrentRepo)
    /\ LET repo == CurrentRepo
           res == Sync(wc[repo.name], repo)
       IN  IF transport /\ res.ok
           THEN /\ wc' = [wc EXCEPT ![repo.name] = res.wc]
                /\ found' = wc[repo.name]
                /\ synced' = Append(synced, repo.name)
                /\ pc' = "policy"
                /\ UNCHANGED <<exit, errlog>>
           ELSE /\ Crash("ProcessExecutionError")
                /\ UNCHANGED <<wc, synced, found>>
    /\ UNCHANGED <<options, listed, directory, remoteRev, cacheDir, reposFile, args, repos, idx,
                   requests, policed, freshed, usedCache, verVars, buildVars, crawlVars, invoked>>

\* inspect_package, lines 51-68
InspectSettings ==
    /\ pc = "policy"
    /\ found' = NoWorkingCopy
    /\ IF args.check_repository_settings
       THEN /\ policed' = Append(policed, CurrentRepo.name)
            /\ IF SettingsViolation(CurrentRepo) # NoText
               THEN Fail("PkgSettingsException", SettingsViolation(CurrentRepo))
               ELSE pc' = "fresh" /\ UNCHANGED <<exit, errlog>>
       ELSE pc' = "fresh" /\ UNCHANGED <<policed, exit, errlog>>
    /\ UNCHANGED <<options, listed, directory, remoteRev, cacheDir, reposFile, wc, args, repos, idx,
                   requests, synced, freshed, usedCache, verVars, buildVars, crawlVars, invoked>>

\* The diff compared after its surrounding white space is removed.
IsOutdatedStripped(nvcmp_out) == Strip(nvcmp_out) # NoText

\* inspect_package, line 74: nvcmp["-c", ".nvchecker.toml"]() != ""
IsOutdated(nvcmp_out) == nvcmp_out # NoText

\* A run of one of the tools in the working copy of a repository, with
\* what it printed.
Invocation(tool, name, out) ==
    [tool |-> tool, cwd |-> name, config |-> ".nvchecker.toml", out |-> out]

\* inspect_package, lines 70-75: nvchecker writes its new-version file in
\* the working copy (untracked, ignored or tracked there, as the package
\* has it), and nvcmp prints the difference.  failed is the tool that ends
\* with an error status, if any: its ProcessExecutionError is not caught.
InspectUpdates(nvcmp_out, written, failed) ==
    /\ pc = "fresh"
    /\ IF args.check_updates
       THEN LET name == CurrentRepo.name
                refresh == Invocation("nvchecker", name, NoText)
                diff == Invocation("nvcmp", name, IF failed = "nvcmp" THEN NoText ELSE nvcmp_out)
            IN  /\ freshed' = Append(freshed, name)
                /\ IF failed = "nvchecker"
                   THEN /\ invoked' = Append(invoked, refresh)
                        /\ Crash("ProcessExecutionError")
                        /\ UNCHANGED <<wc, idx>>
                   ELSE /\ invoked' = invoked \o <<refresh, diff>>
                        /\ wc' = [wc EXCEPT ![name].drift = @ \cup {written}]
                        /\ IF failed = "nvcmp"
                           THEN Crash("ProcessExecutionError") /\ UNCHANGED idx
                           ELSE IF IsOutdated(nvcmp_out)
                           THEN /\ Fail("PkgOutdatedException", <<"'", name, "' has new version">>)
                                /\ UNCHANGED idx
                           ELSE pc' = "inspect" /\ idx' = idx + 1 /\ UNCHANGED <<exit, errlog>>
       ELSE /\ pc' = "inspect" /\ idx' = idx + 1
            /\ UNCHANGED <<freshed, wc, exit, errlog, invoked>>
    /\ UNCHANGED <<options, listed, directory, remoteRev, cacheDir, reposFile, args, repos,
                   requests, synced, policed, usedCache, found, verVars, buildVars, crawlVars>>

\* run, lines 94-99: the loop is over and run returns.
RunEnd ==
    /\ pc = "inspect"
    /\ idx > Len(repos)
    /\ pc' = "exited"
    /\ exit' = 0
    /\ UNCHANGED <<options, listed, directory, remoteRev, cacheDir, reposFile, wc, args, repos, idx,
                   errlog, requests, synced, policed, freshed, usedCache, found, verVars, buildVars, crawlVars, invoked>>

(***************************************************************************)
(* The environment between two scans                                       *)
(***************************************************************************)
MaxRev == 2

DefaultArgs == [clear_cache |-> FALSE, check_updates |-> TRUE,
                check_repository_settings |-> TRUE]

\* The process of the last scan is gone: what is left of it is on disk.
ProcessExit ==
    /\ pc = "exited"
    /\ pc' = "start"
    /\ args' = DefaultArgs
    /\ repos' = <<>>
    /\ idx' = 1
    /\ exit' = 0
    /\ errlog' = NoError
    /\ requests' = <<>>
    /\ synced' = <<>>
    /\ policed' = <<>>
    /\ freshed' = <<>>
    /\ invoked' = <<>>
    /\ usedCache' = FALSE
    /\ UNCHANGED <<options, listed, directory, remoteRev, cacheDir, reposFile, wc, found, verVars, buildVars, crawlVars>>

\* The repositories of the organization that are packages.
Packages ==
    {n \in Names : \E p \in 1..Len(directory) : \E k \in 1..Len(directory[p]) :
        directory[p][k].name = n /\ ~IsSkipped(directory[p][k])}

\* The local drift a manual edit leaves.
Drifts == {{"modified"}, {"untracked"}, {"ignored"}, DriftKinds}

\* A push to the remote repository.
RemotePush(name) ==
    /\ Idle
    /\ name \in Packages
    /\ remoteRev[name] < MaxRev
    /\ remoteRev' = [remoteRev EXCEPT ![name] = @ + 1]
    /\ UNCHANGED <<options, listed, directory, cacheDir, reposFile, wc, pc, args, repos, idx, exit,
                   errlog, requests, synced, policed, freshed, usedCache, found, verVars, buildVars, crawlVars, invoked>>

\* The owners archive a package repository.
RemoteArchive(name) ==
    /\ Idle
    /\ name \in Packages
    /\ directory' = [p \in 1..Len(directory) |-> [k \in 1..Len(directory[p]) |->
            IF directory[p][k].name = name
            THEN [directory[p][k] EXCEPT !.archived = TRUE]
            ELSE directory[p][k]]]
    /\ UNCHANGED <<options, listed, remoteRev, cacheDir, reposFile, wc, pc, args, repos, idx, exit,
                   errlog, requests, synced, policed, freshed, usedCache, found, verVars, buildVars, crawlVars, invoked>>

\* A manual edit of a working copy.
ManualEdit(name, drift) ==
    /\ Idle
    /\ wc[name].exists
    /\ wc[name].drift # drift
    /\ wc' = [wc EXCEPT ![name].drift = drift]
    /\ UNCHANGED <<options, listed, directory, remoteRev, cacheDir, reposFile, pc, args, repos, idx,
                   exit, errlog, requests, synced, policed, freshed, usedCache, found,
                   verVars, buildVars, crawlVars, invoked>>

\* libcheck's run, line 130: check_versioning reads its sources and
\* returns, or logs an error and exits.
LibcheckVersioning ==
    /\ vpc = "input"
    /\ zig
    /\ vout' = CheckVersioning(vin.reference, vin.sed_out, vin.tag_out, vin.oldver, vin.readme)
    /\ vpc' = "done"
    /\ UNCHANGED <<vin, scanVars, crawlVars, buildVars>>

\* run of libcheck without a zig executable: "Zig not found", exit(1).
LibcheckNoZig ==
    /\ vpc = "input"
    /\ ~zig
    /\ vout' = Outcome(1, "zig", <<>>)
    /\ vpc' = "done"
    /\ UNCHANGED <<vin, scanVars, crawlVars, buildVars>>

\* make_triplets, inner loop: base-mode for every mode, in order.
RECURSIVE ModeTriplets(_, _)
ModeTriplets(base, modes) ==
    IF modes = <<>> THEN <<>>
    ELSE <<base \o "-" \o Head(modes)>> \o ModeTriplets(base, Tail(modes))

\* A make_triplets whose else branch is taken only by a loop over no modes.
RECURSIVE MakeTripletsElseWhenEmpty(_, _, _)
MakeTripletsElseWhenEmpty(os, arches, modes) ==
    IF arches = <<>> THEN <<>>
    ELSE LET base == Head(arches) \o "-" \o os
         IN  (IF modes = <<>> THEN <<base>> ELSE ModeTriplets(base, modes))
             \o MakeTripletsElseWhenEmpty(os, Tail(arches), modes)

\* make_triplets: for every arch, the triplets of the modes and then, the
\* inner loop having no break, the else branch's bare triplet.
RECURSIVE MakeTriplets(_, _, _)
MakeTriplets(os, arches, modes) ==
    IF arches = <<>> THEN <<>>
    ELSE LET base == Head(arches) \o "-" \o os
         IN  ModeTriplets(base, modes) \o <<base>> \o MakeTriplets(os, Tail(arches), modes)

\* crosscompile: modes and triplets
OptimizeModes == <<"Debug", "ReleaseSafe">>
CrosscompileTriplets ==
    MakeTriplets("macos", <<"x86_64", "aarch64">>, <<>>)
    \o MakeTriplets("windows", <<"x86_64", "aarch64">>, <<>>)
    \o MakeTriplets("linux", <<"x86_64", "aarch64">>, <<"gnu", "musl">>)
    \o MakeTriplets("netbsd", <<"x86_64">>, <<>>)
    \o MakeTriplets("freebsd", <<"x86_64">>, <<>>)

\* run of libcheck, check_versioning having returned: crosscompile starts
\* its loops, which end at once over no triplet.
Crosscompile ==
    /\ vpc = "done" /\ vout.exit = 0 /\ vout.failed = "none"
    /\ bpc = "off"
    /\ ti' = 1 /\ mi' = 1
    /\ bpc' = (IF CrosscompileTriplets # <<>> THEN "build"
               ELSE IF run_tests THEN "tests" ELSE "done")
    /\ UNCHANGED <<zig, run_tests, built, bexit, scanVars, verVars, crawlVars>>

\* One iteration of crosscompile's inner loop: build runs zig build for the
\* triplet and the mode, and cmd exits with 1 on a non-zero return code.
Build(returncode) ==
    /\ bpc = "build"
    /\ built' = Append(built, <<CrosscompileTriplets[ti], OptimizeModes[mi]>>)
    /\ IF returncode # 0
       THEN bpc' = "exited" /\ bexit' = 1 /\ UNCHANGED <<ti, mi>>
       ELSE /\ UNCHANGED bexit
            /\ IF mi < Len(OptimizeModes)
               THEN mi' = mi + 1 /\ UNCHANGED <<ti, bpc>>
               ELSE IF ti < Len(CrosscompileTriplets)
               THEN ti' = ti + 1 /\ mi' = 1 /\ UNCHANGED bpc
               ELSE /\ UNCHANGED <<ti, mi>>
                    /\ bpc' = (IF run_tests THEN "tests" ELSE "done")
    /\ UNCHANGED <<zig, run_tests, scanVars, verVars, crawlVars>>

\* run of libcheck, args.run_tests: zig build test through cmd.
UnitTests(returncode) ==
    /\ bpc = "tests"
    /\ IF returncode # 0
       THEN bpc' = "exited" /\ bexit' = 1
       ELSE bpc' = "done" /\ UNCHANGED bexit
    /\ UNCHANGED <<zig, run_tests, ti, mi, built, scanVars, verVars, crawlVars>>

\* No libcheck build is under way.
BuildOff ==
    /\ zig = TRUE /\ run_tests = TRUE
    /\ bpc = "off" /\ ti = 1 /\ mi = 1 /\ built = <<>> /\ bexit = 0

(***************************************************************************)
(* Specifications                                                          *)
(***************************************************************************)
Compliant(name) == Repo(name, FALSE, FALSE, FALSE, "main", TRUE, FALSE, FALSE, FALSE, FALSE)
OnMaster(name) == [Compliant(name) EXCEPT !.default_branch = "master"]
WithWiki(name) == [Compliant(name) EXCEPT !.has_wiki = TRUE]
Private(name) == [Compliant(name) EXCEPT !.private = TRUE]
\* breaks every rule of the settings check
Unruly(name) == Repo(name, FALSE, FALSE, TRUE, "master", FALSE, TRUE, TRUE, TRUE, TRUE)
ArchivedUnruly(name) == [Unruly(name) EXCEPT !.archived = TRUE]

\* The organizations the scans of Spec run against, as pages of the API.
Directories ==
    { <<>>,
      << <<Compliant("zlib"), Compliant("lz4")>> >>,
      << <<Compliant("zlib")>>, <<WithWiki("lz4")>> >>,
      << <<OnMaster("zlib"), Compliant("lz4")>> >>,
      << <<Unruly(".github"), Compliant("zlib")>> >>,
      << <<ArchivedUnruly("zlib"), Compliant("lz4")>> >>,
      << <<Private("lz4")>>, <<Unruly("toolset")>> >>,
      << <<Compliant("zlib")>>, <<>>, <<Compliant("lz4")>> >> }

\* Every descriptor of one repository.
Branches == {"main", "master", "Main"}
AllRepos(names) ==
    {Repo(n, p, a, t, b, i, w, g, j, d) :
        n \in names, p \in BOOLEAN, a \in BOOLEAN, t \in BOOLEAN, b \in Branches,
        i \in BOOLEAN, w \in BOOLEAN, g \in BOOLEAN, j \in BOOLEAN, d \in BOOLEAN}

VerOff == [reference |-> NoText, sed_out |-> NoText, tag_out |-> NoText,
           oldver |-> NoText, readme |-> <<>>]
NoOutcome == Outcome(0, "not run", <<>>)

Orgs == {None, "my-org"}
Tokens == {None, "t0ken"}
NoOptions == [github_org |-> None, github_token |-> None]

InitScan(opts, dirs) ==
    /\ options \in opts
    /\ directory \in dirs
    /\ remoteRev = [n \in Names |-> 1]
    /\ cacheDir = FALSE
    /\ reposFile = NoFile
    /\ wc = [n \in Names |-> NoWorkingCopy]
    /\ pc = "start"
    /\ args = DefaultArgs
    /\ repos = <<>>
    /\ idx = 1
    /\ exit = 0
    /\ errlog = NoError
    /\ requests = <<>>
    /\ synced = <<>>
    /\ policed = <<>>
    /\ freshed = <<>>
    /\ usedCache = FALSE
    /\ found = NoWorkingCopy
    /\ invoked = <<>>
    /\ listed = <<>>

CrawlOff ==
    /\ crawlPc = "off" /\ crawlPage = 1 /\ crawlRepositories = <<>> /\ crawlSent = <<>>
    /\ endless = FALSE

Init ==
    /\ InitScan([github_org : Orgs, github_token : Tokens], Directories)
    /\ vpc = "off" /\ vin = VerOff /\ vout = NoOutcome
    /\ BuildOff
    /\ CrawlOff

\* Single-repository organizations, with every descriptor.
InitOne ==
    /\ InitScan({NoOptions}, {<< <<r>> >> : r \in AllRepos({"zlib", ".github", "toolset"})})
    /\ vpc = "off" /\ vin = VerOff /\ vout = NoOutcome
    /\ BuildOff
    /\ CrawlOff

NvcmpOutputs == {NoText, <<"\n">>, <<"u", "p", "s", "t", "r", "e", "a", "m", " ", "1", ".", "0", " ", "-", ">", " ", "1", ".", "1", "\n">>}
ToolFailures == {"none", "nvchecker", "nvcmp"}

\* A scan that finds its cache does not call the API: the page that fails
\* is drawn for the scans that fetch.
Fetches(clear_cache) == clear_cache \/ ~cacheDir
FailuresOf(clear_cache) == IF Fetches(clear_cache) THEN 0..(Len(directory) + 1) ELSE {0}

Next ==
    \/ \E clear_cache \in BOOLEAN, check_updates \in BOOLEAN,
          check_repository_settings \in BOOLEAN :
          \E failAt \in FailuresOf(clear_cache) :
            RunStart(clear_cache, check_updates, check_repository_settings, failAt)
    \/ InspectSkip
    \/ \E transport \in BOOLEAN : InspectSync(transport)
    \/ InspectSettings
    \/ \E out \in NvcmpOutputs, written \in DriftKinds, failed \in ToolFailures :
          InspectUpdates(out, written, failed)
    \/ RunEnd
    \/ ProcessExit
    \/ \E name \in Names : RemotePush(name)
    \/ \E name \in Names : RemoteArchive(name)
    \/ \E name \in Names, drift \in Drifts : ManualEdit(name, drift)

Spec == Init /\ [][Next]_vars
SpecOne == InitOne /\ [][Next]_vars

(***************************************************************************)
(* fetch_repos, one iteration of its loop at a time                        *)
(***************************************************************************)
\* The crawl is cut off at this page when the API never serves an empty one.
MaxPage == 5

\* resp.json() of the request for page n: the page of the directory, or,
\* past it, a page of one repository if the API is endless.
CrawlData(n) ==
    IF endless /\ n > Len(directory) THEN <<Compliant("lz4")>> ELSE ApiPage(n)

\* fetch_repos, lines 92-121: one pass of the while loop.  status_ok is
\* whether the response has a 2xx status; raise_for_status raises if not.
FetchReposStep(status_ok) ==
    /\ crawlPc = "request"
    /\ crawlPage <= MaxPage
    /\ LET gh == GitHubInit(options.github_org, options.github_token)
           data == CrawlData(crawlPage)
       IN  /\ crawlSent' = Append(crawlSent, Request(gh, crawlPage))
           /\ IF ~status_ok
              THEN /\ crawlPc' = "failed"
                   /\ crawlRepositories' = <<>>
                   /\ UNCHANGED crawlPage
              ELSE IF EndOfListing(data)
              THEN /\ crawlPc' = "done"
                   /\ UNCHANGED <<crawlPage, crawlRepositories>>
              ELSE /\ crawlRepositories' = crawlRepositories \o data
                   /\ crawlPage' = crawlPage + 1
                   /\ UNCHANGED crawlPc
    /\ UNCHANGED <<endless, scanVars, verVars, buildVars>>

InitCrawl ==
    /\ InitScan([github_org : Orgs, github_token : Tokens], Directories)
    /\ vpc = "off" /\ vin = VerOff /\ vout = NoOutcome
    /\ BuildOff
    /\ crawlPc = "request" /\ crawlPage = 1 /\ crawlRepositories = <<>> /\ crawlSent = <<>>
    /\ endless \in BOOLEAN

NextCrawl == \E status_ok \in BOOLEAN : FetchReposStep(status_ok)

\* The loop is sequential code: it goes on while it can.
SpecCrawl == InitCrawl /\ [][NextCrawl]_vars /\ WF_vars(NextCrawl)

(***************************************************************************)
(* The sources check_versioning is run against                             *)
(***************************************************************************)
V_2_0_0 == <<"2", ".", "0", ".", "0">>
V_1_9_9 == <<"1", ".", "9", ".", "9">>
V_1_2_3 == <<"1", ".", "2", ".", "3">>
V_2_0_0_1 == V_2_0_0 \o <<"-", "1">>
V_2_0_0_2 == V_2_0_0 \o <<"-", "2">>
V_1_2_3_0 == V_1_2_3 \o <<"-", "0">>
V_01_2_3_0 == <<"0">> \o V_1_2_3_0
V_1_02_3_0 == <<"1", ".", "0", "2", ".", "3", "-", "0">>
V_2x0y0_1 == <<"2", "x", "0", "y", "0", "-", "1">>
NewLine == <<"\n">>

\* get_package_url("z") of the organization "o"
PackageUrl == <<"h", "t", "t", "p", "s", ":", "/", "/", "g", "i", "t", "h", "u", "b",
                ".", "c", "o", "m", "/", "o", "/", "z">>

\* GitHub.get_package_archive: the install line of a README
InstallLine(version) == ZigFetchSave \o PackageUrl \o ArchiveRefsTags \o version \o TarGz

\* "# z@v" and the header lines built on it
HeaderAt(version) == <<"#", " ", "z", "@", "v">> \o version

SedOutputs ==
    { NoText, V_2_0_0_1 \o NewLine, V_1_2_3_0 \o NewLine, V_1_2_3 \o NewLine,
      V_01_2_3_0 \o NewLine, V_2_0_0 \o <<"-">> \o NewLine }
References == { NoText, V_2_0_0_1, V_2_0_0_2 }
TagOutputs == { NoText, V_2_0_0_1 \o NewLine, V_1_2_3_0 \o NewLine }
OldVersions == { V_2_0_0, V_1_9_9, V_1_2_3, V_2_0_0_1 }
HeaderLines ==
    { HeaderAt(V_2_0_0), HeaderAt(V_1_2_3), HeaderAt(V_2_0_0_1),
      <<"z", "@", "v">> \o V_2_0_0, <<"#", " ", "z">>,
      HeaderAt(V_1_2_3) \o <<" ", "@", "v">> \o V_2_0_0 }
ReadmeBodies ==
    { <<>>, <<InstallLine(V_2_0_0_1)>>, <<InstallLine(V_2x0y0_1)>>,
      <<InstallLine(V_2_0_0_2)>>, <<InstallLine(V_1_2_3_0)>>,
      <<<<" ">> \o InstallLine(V_2_0_0_1)>>,
      <<InstallLine(V_2_0_0_2), InstallLine(V_2_0_0_1)>> }

ScanOff ==
    /\ InitScan({NoOptions}, {<<>>})
    /\ CrawlOff

\* check_versioning against every combination of the sources above.
InitVer ==
    /\ ScanOff
    /\ BuildOff
    /\ vpc = "input"
    /\ vin \in [reference : References, sed_out : SedOutputs, tag_out : TagOutputs,
                oldver : OldVersions,
                readme : {<<h>> \o b : h \in HeaderLines, b \in ReadmeBodies}]
    /\ vout = NoOutcome

\* check_versioning against every manifest version of up to MaxLen
\* characters, the other sources being those of version 1.0.1.
MaxLen == 8
GrammarAlphabet == {"0", "1", ".", "-"}
V_1_0_1 == <<"1", ".", "0", ".", "1">>

InitGrammar ==
    /\ ScanOff
    /\ BuildOff
    /\ vpc = "input"
    /\ \E n \in 0..MaxLen : \E text \in [1..n -> GrammarAlphabet] :
         vin = [reference |-> NoText, sed_out |-> text, tag_out |-> NoText,
                oldver |-> V_1_0_1,
                readme |-> <<HeaderAt(V_1_0_1), InstallLine(text)>>]
    /\ vout = NoOutcome

NextVer == LibcheckVersioning

SpecVer == InitVer /\ [][NextVer]_vars
SpecGrammar == InitGrammar /\ [][NextVer]_vars

\* A whole libcheck run: with and without zig, with and without the unit
\* tests, on consistent and on inconsistent version sources, every zig
\* build returning any of ReturnCodes.
ReturnCodes == {0, 1, 2}

InitBuild ==
    /\ ScanOff
    /\ vpc = "input"
    /\ vin \in [reference : {NoText, V_2_0_0_2}, sed_out : {V_2_0_0_1 \o NewLine},
                tag_out : {NoText}, oldver : {V_2_0_0},
                readme : {<<HeaderAt(V_2_0_0), InstallLine(V_2_0_0_1)>>}]
    /\ vout = NoOutcome
    /\ zig \in BOOLEAN /\ run_tests \in BOOLEAN
    /\ bpc = "off" /\ ti = 1 /\ mi = 1 /\ built = <<>> /\ bexit = 0

NextBuild ==
    \/ LibcheckNoZig
    \/ LibcheckVersioning
    \/ Crosscompile
    \/ \E returncode \in ReturnCodes : Build(returncode)
    \/ \E returncode \in ReturnCodes : UnitTests(returncode)

SpecBuild == InitBuild /\ [][NextBuild]_vars

(***************************************************************************)
(* Properties                                                              *)
(***************************************************************************)
Range(seq) == {seq[i] : i \in 1..Len(seq)}
Last(seq) == seq[Len(seq)]

\* A descriptor the scan is to leave alone.
Exempt(r) == r.archived \/ r.private \/ r.name \in {".github", "toolset"}

\* The names of the repositories among the first k of the loaded list that
\* the scan is to process, in the order of the list.
RECURSIVE ToProcess(_)
ToProcess(k) ==
    IF k <= 0 THEN <<>>
    ELSE IF k > Len(repos) THEN ToProcess(Len(repos))
    ELSE IF Exempt(repos[k]) THEN ToProcess(k - 1)
    ELSE Append(ToProcess(k - 1), repos[k].name)

WhenSet(flag, seq) == IF flag THEN seq ELSE <<>>

\* C1: the scan is fail-fast in the order of the cached list.  At every
\* point of a scan the repositories synchronized, policy-checked and
\* freshness-checked are exactly the non-exempt ones of the list up to the
\* loop's position, in the list's order; and a scan that a PolicyViolation or
\* an OutdatedPackage ended has logged the cause and exited with status 1
\* with the repositories before the failing one fully processed and none
\* after it touched.
C1_FailFastInOrder ==
    LET settings == args.check_repository_settings
        updates == args.check_updates
    IN  /\ pc = "inspect" =>
            /\ synced = ToProcess(idx - 1)
            /\ policed = WhenSet(settings, ToProcess(idx - 1))
            /\ freshed = WhenSet(updates, ToProcess(idx - 1))
        /\ pc = "policy" =>
            /\ synced = ToProcess(idx) /\ Last(synced) = repos[idx].name
            /\ policed = WhenSet(settings, ToProcess(idx - 1))
            /\ freshed = WhenSet(updates, ToProcess(idx - 1))
        /\ pc = "fresh" =>
            /\ synced = ToProcess(idx) /\ Last(synced) = repos[idx].name
            /\ policed = WhenSet(settings, ToProcess(idx))
            /\ freshed = WhenSet(updates, ToProcess(idx - 1))
        /\ (pc = "exited" /\ errlog.raised = "PkgSettingsException") =>
            /\ exit = 1 /\ errlog.logged # NoText
            /\ idx <= Len(repos)
            /\ synced = ToProcess(idx) /\ Last(synced) = repos[idx].name
            /\ policed = ToProcess(idx)
            /\ freshed = WhenSet(updates, ToProcess(idx - 1))
        /\ (pc = "exited" /\ errlog.raised = "PkgOutdatedException") =>
            /\ exit = 1 /\ errlog.logged # NoText
            /\ idx <= Len(repos)
            /\ synced = ToProcess(idx) /\ Last(synced) = repos[idx].name
            /\ policed = WhenSet(settings, ToProcess(idx))
            /\ freshed = ToProcess(idx)

\* C1's case: the first of two packages broke the policy, and the second
\* was not touched.
C1_Witness ==
    /\ pc = "exited" /\ errlog.raised = "PkgSettingsException"
    /\ idx = 1 /\ Len(repos) = 2 /\ ~Exempt(repos[2])
    /\ synced = <<repos[1].name>>

\* C2: an archived, private or internal descriptor is never cloned,
\* synchronized, policy-checked or freshness-checked, whatever its settings
\* and the flags, and no scan fails at it.
C2_ExemptUntouched ==
    /\ \A i \in 1..Len(repos) : Exempt(repos[i]) =>
           /\ repos[i].name \notin (Range(synced) \cup Range(policed) \cup Range(freshed))
           /\ ~wc[repos[i].name].exists
    /\ (pc = "exited" /\ exit = 1 /\ idx <= Len(repos)) => ~Exempt(repos[idx])
    /\ (pc \in {"policy", "fresh"}) => ~Exempt(repos[idx])

\* C2's case: a scan with both checks enabled ended well over an archived
\* repository that breaks every rule.
C2_Witness ==
    /\ pc = "exited" /\ exit = 0 /\ idx = 2 /\ Len(repos) = 1
    /\ repos[1].archived /\ repos[1].name = "zlib"
    /\ repos[1].default_branch = "master" /\ repos[1].has_wiki /\ ~repos[1].has_issues
    /\ args.check_repository_settings /\ args.check_updates

\* The rules of the policy, in their order.
RuleBroken(r, k) ==
    CASE k = 1 -> r.default_branch # "main"
      [] k = 2 -> r.is_template
      [] k = 3 -> ~r.has_issues
      [] k = 4 -> r.has_wiki
      [] k = 5 -> r.has_pages
      [] k = 6 -> r.has_projects
      [] k = 7 -> r.has_discussions

\* The descriptor that breaks rule k alone (with the given branch, for the
\* first rule), and the reason reported for it: the reason of rule k.
BreaksOnly(k, branch) ==
    CASE k = 1 -> [Compliant("zlib") EXCEPT !.default_branch = branch]
      [] k = 2 -> [Compliant("zlib") EXCEPT !.is_template = TRUE]
      [] k = 3 -> [Compliant("zlib") EXCEPT !.has_issues = FALSE]
      [] k = 4 -> [Compliant("zlib") EXCEPT !.has_wiki = TRUE]
      [] k = 5 -> [Compliant("zlib") EXCEPT !.has_pages = TRUE]
      [] k = 6 -> [Compliant("zlib") EXCEPT !.has_projects = TRUE]
      [] k = 7 -> [Compliant("zlib") EXCEPT !.has_discussions = TRUE]
ReasonOfRule(k, branch) == SettingsViolation(BreaksOnly(k, branch))

\* C3: with the settings check enabled, the check of a synchronized
\* repository passes iff the default branch is "main", the repository is no
\* template, issues are enabled and wiki, pages, projects and discussions
\* are disabled; otherwise the scan ends with the reason of the first broken
\* rule, in the order branch, template, issues, wiki, pages, projects,
\* discussions, and the seven reasons are pairwise distinct.
C3_PolicyVerdict ==
    [][ (pc = "policy" /\ args.check_repository_settings) =>
          LET r == repos[idx]
              broken == {k \in 1..7 : RuleBroken(r, k)}
          IN  /\ IF broken = {}
                 THEN pc' = "fresh" /\ errlog' = errlog /\ exit' = exit
                 ELSE /\ pc' = "exited" /\ exit' = 1
                      /\ errlog'.raised = "PkgSettingsException"
                      /\ errlog'.logged = ReasonOfRule(MinOf(broken), r.default_branch)
                      /\ errlog'.logged # NoText
              /\ r.default_branch = "master" => errlog'.logged = ReasonOfRule(1, "master")
              /\ \A j \in 1..7, k \in 1..7 : \A b \in {"master", r.default_branch} :
                    (j # k /\ (b # "main" \/ (j # 1 /\ k # 1))) =>
                        ReasonOfRule(j, b) # ReasonOfRule(k, b)
      ]_vars

\* C3's case: a repository with wiki and pages both enabled was refused for
\* its wiki.
C3_Witness ==
    /\ pc = "exited" /\ errlog.raised = "PkgSettingsException"
    /\ repos[idx].has_wiki /\ repos[idx].has_pages /\ repos[idx].has_discussions
    /\ errlog.logged = <<"Wiki must be disabled">>

\* A number of the version grammar: "0", or digits not starting with "0".
IsNumber(t) ==
    /\ t # <<>>
    /\ \A i \in 1..Len(t) : t[i] \in Digit
    /\ t[1] = "0" => Len(t) = 1

\* The form N.N.N
HasUpstreamForm(t) ==
    \E i, j \in 1..Len(t) :
        /\ i < j /\ t[i] = "." /\ t[j] = "."
        /\ IsNumber(SubSeq(t, 1, i - 1))
        /\ IsNumber(SubSeq(t, i + 1, j - 1))
        /\ IsNumber(SubSeq(t, j + 1, Len(t)))

\* The form N.N.N-N
HasVersionForm(t) ==
    \E k \in 1..Len(t) :
        /\ t[k] = "-"
        /\ HasUpstreamForm(SubSeq(t, 1, k - 1))
        /\ IsNumber(SubSeq(t, k + 1, Len(t)))

\* A text of the form N.N.N-N without its -N
StrippedForm(t) == SubSeq(t, 1, MaxOf({k \in 1..Len(t) : t[k] = "-"}) - 1)

\* Some line of the README installs the archive of exactly the version m.
InstallsExactly(readme, m) ==
    \E i \in 1..Len(readme) :
        LET line == readme[i]
            tail == ArchiveRefsTags \o m \o TarGz
        IN  /\ Len(line) >= Len(ZigFetchSave) + Len(tail)
            /\ SubSeq(line, 1, Len(ZigFetchSave)) = ZigFetchSave
            /\ SubSeq(line, Len(line) - Len(tail) + 1, Len(line)) = tail

\* C4: the versioning check ends well iff the manifest version has the
\* form N.N.N-N, the reference version is not supplied or equals it, no tag
\* is reachable or the most recent tag equals it, the tracker's version and
\* the version of the README header equal it without its -N, and the README
\* installs exactly it.
C4_OkIffAllAgree ==
    vpc = "done" =>
        LET m == Strip(vin.sed_out)
            tag == Strip(vin.tag_out)
        IN  (vout.exit = 0) <=>
                /\ HasVersionForm(m)
                /\ vin.reference = NoText \/ vin.reference = m
                /\ tag = NoText \/ tag = m
                /\ vin.oldver = StrippedForm(m)
                /\ Strip(HeaderSed(FirstLine(vin.readme))) = StrippedForm(m)
                /\ InstallsExactly(vin.readme, m)

\* C5: the grammar check accepts the manifest version iff it has the form
\* N.N.N-N with numbers without leading zeros and the separators "." and
\* "-"; a rejected version ends the check with status 1; "1.2.3-0" is
\* accepted and "01.2.3-0", "1.02.3-0", "1.2.3" and "1.2.3-" are rejected.
C5_GrammarAccepts ==
    vpc = "done" =>
        LET m == Strip(vin.sed_out)
            rejected == vout.failed = "grammar"
        IN  /\ rejected <=> ~HasVersionForm(m)
            /\ rejected => vout.exit = 1 /\ vout.logged = <<m>>
            /\ m = V_1_2_3_0 => ~rejected
            /\ m \in {V_01_2_3_0, V_1_02_3_0, V_1_2_3, V_1_2_3 \o <<"-">>} => rejected

\* C5's case: a version with a number of two digits passed the grammar
\* check.
C5_Witness ==
    /\ vpc = "done" /\ vout.failed = "tracker"
    /\ vin.sed_out = <<"1", "0", ".", "0", ".", "0", "-", "0">>

\* C6: for a manifest version of the form N.N.N-N the upstream version the
\* check compares is the manifest version without exactly its -N, of the
\* form N.N.N; and removing the suffix from v followed by "-0" gives v back,
\* for every v of the form N.N.N.
C6_UpstreamVersion ==
    vpc = "done" =>
        LET m == vin.sed_out
        IN  /\ HasVersionForm(m) =>
                /\ \E k \in 1..Len(m) :
                      /\ m[k] = "-" /\ IsNumber(SubSeq(m, k + 1, Len(m)))
                      /\ UpstreamVersion(m) = SubSeq(m, 1, k - 1)
                /\ HasUpstreamForm(UpstreamVersion(m))
                /\ vout.failed = "tracker" => vout.logged = <<StrippedForm(m), vin.oldver>>
                /\ vout.failed = "none" => vin.oldver = StrippedForm(m)
                /\ vout.failed \in {"tracker", "none"}
            /\ HasUpstreamForm(m) => UpstreamVersion(m \o <<"-", "0">>) = m

\* C6's case: a version with a build number of two digits passed every
\* comparison with its upstream version.
C6_Witness ==
    /\ vpc = "done" /\ vout.exit = 0 /\ vout.failed = "none"
    /\ vin.sed_out = V_1_0_1 \o <<"-", "1", "0">>

\* What the organization lists: its pages up to the first empty one.
RECURSIVE Listing(_)
Listing(page) ==
    IF page > Len(directory) \/ directory[page] = <<>>
    THEN <<>>
    ELSE directory[page] \o Listing(page + 1)

\* C7: the cache directory alone says whether the cache is valid.  A scan
\* started with the directory present and without --clear-cache sends no
\* request to the directory API and leaves repos.jsonl as it is for the whole
\* run; a scan started with the directory absent makes one fetch of all
\* pages, in order from the first, and has saved its result before the first
\* repository is inspected.
C7_CacheValidity ==
    [][ /\ (pc = "start" /\ pc' # "start" /\ cacheDir /\ ~args'.clear_cache) =>
            /\ requests' = <<>>
            /\ reposFile' = reposFile
            /\ usedCache'
        /\ (pc = "start" /\ pc' # "start" /\ ~cacheDir) =>
            /\ requests' # <<>>
            /\ \A k \in 1..Len(requests') : requests'[k].page = k
            /\ ~usedCache'
            /\ synced' = <<>>
            /\ pc' = "inspect" =>
                  /\ JsonLoad(reposFile') = [ok |-> TRUE, value |-> Listing(1)]
                  /\ repos' = Listing(1)
                  /\ idx' = 1
        /\ (pc # "start" /\ pc' # "start") =>
            /\ reposFile' = reposFile
            /\ requests' = requests
            /\ usedCache' = usedCache
            /\ repos' = repos
      ]_vars

\* C7's case: a scan runs on a cache that no longer is what the
\* organization lists, without a request.
C7_Witness ==
    /\ pc = "policy" /\ usedCache /\ requests = <<>>
    /\ repos # Listing(1)
    /\ JsonLoad(reposFile).value = repos

\* C8: synchronizing twice on an unchanged remote leaves the working copy
\* of the second synchronization equal to the one of the first, whatever the
\* working copy was before: absent, in sync or with local drift.
C8_SyncIdempotent ==
    pc = "policy" =>
        LET r == CurrentRepo
            first == Sync(found, r)
            second == Sync(first.wc, r)
        IN  /\ first.ok /\ first.wc = wc[r.name]
            /\ second.ok /\ second.wc = first.wc

\* C8's case: the synchronized working copy was behind the remote and had
\* every kind of drift.
C8_Witness ==
    /\ pc = "policy" /\ found.exists /\ found.drift = DriftKinds
    /\ found.origin < remoteRev[CurrentRepo.name]

\* C9: after a successful synchronization the working copy of the
\* repository is at the tip of the remote default branch and has no
\* modified, untracked or ignored file, whether it was cloned or updated and
\* whatever drift it had.
C9_MirrorsRemote ==
    pc = "policy" =>
        LET r == CurrentRepo
            w == wc[r.name]
        IN  /\ w.exists
            /\ w.branch = r.default_branch
            /\ w.head = remoteRev[r.name] /\ w.origin = remoteRev[r.name]
            /\ w.drift = {}
            /\ ~found.exists => w = [exists |-> TRUE, branch |-> r.default_branch,
                                     origin |-> remoteRev[r.name],
                                     head |-> remoteRev[r.name], drift |-> {}]

\* C9's case: a working copy with an ignored file, behind the remote, was
\* updated from a cached list.
C9_Witness ==
    /\ pc = "policy" /\ usedCache /\ found.exists
    /\ "ignored" \in found.drift /\ found.head < remoteRev[CurrentRepo.name]
    /\ wc[CurrentRepo.name].head > found.head

\* C10: with both checks disabled a scan only synchronizes: no repository is
\* policy-checked or freshness-checked, and the scan ends with status 0
\* unless a request to the directory API or a synchronization failed.
C10_SyncOnly ==
    (pc # "start" /\ ~args.check_updates /\ ~args.check_repository_settings) =>
        /\ policed = <<>>
        /\ freshed = <<>>
        /\ pc = "exited" =>
              \/ exit = 0
              \/ errlog.raised \in {"HTTPError", "ProcessExecutionError"}

\* The pages 1..n the API serves, one after the other.
RECURSIVE PagesUpTo(_)
PagesUpTo(n) == IF n <= 0 THEN <<>> ELSE PagesUpTo(n - 1) \o CrawlData(n)

\* The crawl has asked for the pages 1..n, once each and in order, with
\* per_page=100.
AskedPages(n) ==
    /\ Len(crawlSent) = n
    /\ \A k \in 1..n : crawlSent[k].page = k /\ crawlSent[k].per_page = 100

CrawlEnded == crawlPc \in {"done", "failed"}

\* C11: the fetch asks for the pages 1, 2, 3, ... with per_page=100, each
\* once, and stops exactly at the first empty page, returning the pages
\* before it in page order; a short non-empty page does not end it; it ends
\* only on an empty page or an error, and it does end when the API serves an
\* empty page.
C11_Pagination ==
    /\ [](/\ crawlPc = "request" =>
              /\ AskedPages(crawlPage - 1)
              /\ \A k \in 1..(crawlPage - 1) : CrawlData(k) # <<>>
              /\ crawlRepositories = PagesUpTo(crawlPage - 1)
          /\ crawlPc = "done" =>
              /\ AskedPages(crawlPage)
              /\ CrawlData(crawlPage) = <<>>
              /\ \A k \in 1..(crawlPage - 1) : CrawlData(k) # <<>> /\ Len(CrawlData(k)) < 100
              /\ crawlRepositories = PagesUpTo(crawlPage - 1)
              /\ ~endless =>
                    FetchRepos(GitHubInit(options.github_org, options.github_token), 0)
                        = [ok |-> TRUE, repos |-> crawlRepositories, requests |-> crawlSent]
          /\ crawlPc = "failed" =>
              /\ AskedPages(crawlPage)
              /\ \A k \in 1..(crawlPage - 1) : CrawlData(k) # <<>>)
    /\ (crawlPc = "request" /\ \E n \in 1..MaxPage : CrawlData(n) = <<>>) ~> CrawlEnded
    /\ [][crawlPc = "request" /\ crawlPc' = "failed" => crawlPage' = crawlPage]_vars

\* C11's case: the crawl ended at the third page after two short pages.
C11_Witness ==
    /\ crawlPc = "done" /\ crawlPage = 3
    /\ Len(crawlRepositories) = 2 /\ Len(crawlSent) = 3

\* The first page the API serves empty.
FirstEmptyPage == MinOf({n \in 1..(Len(directory) + 1) : ApiPage(n) = <<>>})

\* C12: a scan that fetches and gets an error status for one of the pages
\* it asks for stops asking at that page, loads no descriptor (not even
\* those of the pages before), synchronizes and checks nothing, and ends
\* with status 1.
C12_FetchAborts ==
    [][ \A clear_cache \in BOOLEAN, check_updates \in BOOLEAN,
           check_repository_settings \in BOOLEAN :
          \A failAt \in 1..FirstEmptyPage :
            (/\ Fetches(clear_cache)
             /\ RunStart(clear_cache, check_updates, check_repository_settings, failAt))
            => /\ pc' = "exited" /\ exit' = 1
               /\ errlog'.raised = "HTTPError"
               /\ Len(requests') = failAt
               /\ \A k \in 1..failAt : requests'[k].page = k
               /\ repos' = <<>>
               /\ ~JsonLoad(reposFile').ok
               /\ synced' = <<>> /\ policed' = <<>> /\ freshed' = <<>>
               /\ \A n \in Names : wc'[n] = wc[n] \/ (clear_cache /\ ~wc'[n].exists)
      ]_vars

\* C12's case: the request for the second page failed after a first page
\* of repositories, and the scan ended.
C12_Witness ==
    /\ pc = "exited" /\ exit = 1 /\ errlog.raised = "HTTPError"
    /\ Len(requests) = 2 /\ Len(directory[1]) = 2
    /\ repos = <<>> /\ synced = <<>>

\* C13: the cache file a scan has saved holds one descriptor per line: as
\* many lines as the fetch returned descriptors, each line one JSON object,
\* the i-th line holding the i-th descriptor.
C13_OneRecordPerLine ==
    (pc = "inspect" /\ ~usedCache) =>
        /\ reposFile.exists
        /\ Len(reposFile.lines) = Len(repos)
        /\ \A i \in 1..Len(reposFile.lines) : reposFile.lines[i].json = "object"

C15_UpdateCheck ==
    [][ (pc = "fresh" /\ args.check_updates) =>
          LET name == repos[idx].name
              ran == SubSeq(invoked', Len(invoked) + 1, Len(invoked'))
              crashed == errlog'.raised = "ProcessExecutionError"
              outdated == /\ pc' = "exited" /\ exit' = 1
                          /\ errlog'.raised = "PkgOutdatedException"
                          /\ \E i \in 1..Len(errlog'.logged) : errlog'.logged[i] = name
          IN  /\ ~Exempt(repos[idx]) /\ wc[name].exists
              /\ SubSeq(invoked', 1, Len(invoked)) = invoked
              /\ ran # <<>> /\ ran[1].tool = "nvchecker"
              /\ \A i \in 1..Len(ran) : ran[i].cwd = name
              /\ ~crashed =>
                    /\ Len(ran) = 2 /\ ran[2].tool = "nvcmp"
                    /\ outdated <=> ran[2].out # <<>>
                    /\ ran[2].out = <<>> =>
                          pc' = "inspect" /\ idx' = idx + 1 /\ errlog' = errlog /\ exit' = exit
      ]_vars

\* C15's case: the second package of a scan was reported outdated for a
\* diff of one empty line.
C15_Witness ==
    /\ pc = "exited" /\ errlog.raised = "PkgOutdatedException"
    /\ Len(invoked) = 4 /\ invoked[4].tool = "nvcmp" /\ invoked[4].out = <<"\n">>
    /\ invoked[3].tool = "nvchecker" /\ invoked[3].cwd = repos[idx].name

\* C16: the check of the install documentation passes only if some line of
\* the README is an install command for the archive of the manifest version,
\* character for character; a README whose install lines all name another
\* version fails.
C16_InstallLineVerbatim ==
    (vpc = "done" /\ vout.failed \notin {"grammar", "reference", "tag", "tracker", "header"}) =>
        LET m == Strip(vin.sed_out)
        IN  /\ vout.failed = "none" => InstallsExactly(vin.readme, m)
            /\ ~InstallsExactly(vin.readme, m) => vout.failed = "install" /\ vout.exit = 1

\* C17: a request to the directory API carries the header
\* "Authorization: Bearer <token>" only when a token was given, with that
\* token; when none was given no request carries the header.
C17_Authorization ==
    \A k \in 1..Len(requests) :
        LET authorization == {h \in requests[k].headers : h.name = "Authorization"}
        IN  /\ authorization # {} =>
                  /\ options.github_token # None
                  /\ authorization = {[name |-> "Authorization",
                                        value |-> <<"Bearer", options.github_token>>]}
            /\ options.github_token = None => authorization = {}

\* C17's case: both requests of a fetch carried the token that was given.
C17_Witness ==
    /\ Len(requests) = 2 /\ options.github_token = "t0ken"
    /\ \A k \in 1..2 :
          requests[k].headers = {[name |-> "Authorization", value |-> <<"Bearer", "t0ken">>]}

\* C18: a synchronization that fails ends the whole scan: the scan ends
\* with a status other than 0, the repository is neither policy-checked nor
\* freshness-checked, and no later repository is processed.
C18_SyncFailureFatal ==
    [][ /\ InspectSync(FALSE) =>
            /\ pc' = "exited" /\ exit' # 0
            /\ errlog'.raised = "ProcessExecutionError"
            /\ synced' = synced /\ policed' = policed /\ freshed' = freshed
            /\ invoked' = invoked /\ idx' = idx
            /\ repos[idx].name \notin (Range(synced') \cup Range(policed') \cup Range(freshed'))
            /\ \A i \in idx..Len(repos) : repos[i].name \notin Range(synced')
        /\ pc = "exited" =>
            /\ pc' = "start"
            /\ synced' = <<>> /\ policed' = <<>> /\ freshed' = <<>> /\ wc' = wc
      ]_vars

\* C18's case: the synchronization of the first of two packages failed in a
\* scan with both checks enabled.
C18_Witness ==
    /\ pc = "exited" /\ exit = 1 /\ errlog.raised = "ProcessExecutionError"
    /\ idx = 1 /\ Len(repos) = 2 /\ ~Exempt(repos[1]) /\ ~Exempt(repos[2])
    /\ synced = <<>> /\ policed = <<>> /\ invoked = <<>>
    /\ args.check_updates /\ args.check_repository_settings

\* C19: every disagreement of versions the check finds (with the
\* reference, the tag, the tracker, the README header or the README install
\* line) ends it with a status other than 0 and is logged with the two
\* values that disagree.
C19_MismatchReported ==
    (vpc = "done" /\ vout.failed \in {"reference", "tag", "tracker", "header", "install"}) =>
        /\ vout.exit # 0
        /\ Len(vout.logged) = 2
        /\ vout.logged[1] # vout.logged[2]

\* C20: no step of a scan without --clear-cache deletes a working copy: an
\* existing working copy goes on existing, for the branch it was cloned
\* for, and is left as it is unless it is the one of the repository being
\* inspected, which must be one the scan processes.
C20_WorkingCopiesPersist ==
    [][ \A n \in Names :
          LET starting == pc = "start" /\ pc' # "start"
              running == pc \notin {"start", "exited"}
          IN  /\ (wc[n].exists /\ ~wc'[n].exists) => (starting /\ args'.clear_cache)
              /\ (starting /\ ~args'.clear_cache) => wc'[n] = wc[n]
              /\ (running /\ wc[n].exists) =>
                    /\ wc'[n].exists /\ wc'[n].branch = wc[n].branch
                    /\ wc'[n] # wc[n] => (n = repos[idx].name /\ ~Exempt(repos[idx]))
              /\ pc = "exited" => wc'[n] = wc[n]
      ]_vars

\* C20's case: a scan on a cached list updates the working copy of its
\* first package in place, and the one of its second package is still
\* there as a manual edit left it.
C20_Witness ==
    /\ pc = "policy" /\ usedCache /\ ~args.clear_cache
    /\ idx = 1 /\ Len(repos) = 2 /\ found.exists /\ found.drift # {}
    /\ wc[repos[1].name].exists
    /\ wc[repos[2].name].exists /\ wc[repos[2].name].drift = {"untracked"}

\* Some rule of the policy is broken by the descriptor.
BreaksPolicy(r) == \E k \in 1..7 : RuleBroken(r, k)

\* The tools were run in the working copy of the repository.
ToolsRanIn(name) == \E i \in 1..Len(invoked) : invoked[i].cwd = name

\* C21: a repository is synchronized first, then policy-checked if that is
\* enabled, then freshness-checked if that is enabled: a repository that
\* fails the policy has its working copy synchronized, nvchecker and nvcmp
\* are never run for it, and a scan with the policy check enabled reports no
\* repository that breaks the policy as outdated.
C21_SyncPolicyFreshness ==
    LET settings == args.check_repository_settings
    IN  /\ \A i \in 1..Len(policed) : policed[i] \in Range(synced)
        /\ \A i \in 1..Len(freshed) :
              /\ freshed[i] \in Range(synced)
              /\ settings => freshed[i] \in Range(policed)
        /\ \A i \in 1..Len(repos) :
              (ToolsRanIn(repos[i].name) /\ settings) => ~BreaksPolicy(repos[i])
        /\ \A i \in 1..Len(invoked) : invoked[i].cwd \in Range(freshed)
        /\ pc = "policy" =>
              repos[idx].name \notin (Range(policed) \cup Range(freshed))
        /\ pc = "fresh" =>
              /\ repos[idx].name \notin Range(freshed)
              /\ settings => ~BreaksPolicy(repos[idx])
        /\ (pc = "exited" /\ errlog.raised = "PkgSettingsException") =>
              LET name == repos[idx].name
              IN  /\ BreaksPolicy(repos[idx])
                  /\ Last(synced) = name
                  /\ wc[name].exists /\ wc[name].head = remoteRev[name]
                  /\ ~ToolsRanIn(name) /\ name \notin Range(freshed)
        /\ (pc = "exited" /\ errlog.raised = "PkgOutdatedException" /\ settings) =>
              ~BreaksPolicy(repos[idx])

\* C21's case: with both checks enabled a repository with projects enabled
\* was synchronized and refused, and the tools were not run.
C21_Witness ==
    /\ pc = "exited" /\ errlog.raised = "PkgSettingsException"
    /\ args.check_updates /\ args.check_repository_settings
    /\ errlog.logged = <<"Projects must be disabled">>
    /\ synced = <<repos[idx].name>> /\ wc[repos[idx].name].exists
    /\ invoked = <<>> /\ freshed = <<>>

\* The checks of the versioning check, in their order, and whether the
\* sources read pass each of them taken alone.
CheckNames == <<"grammar", "reference", "tag", "tracker", "header", "install">>
CheckPasses(k) ==
    LET m == Strip(vin.sed_out)
        tag == Strip(vin.tag_out)
    IN  CASE k = 1 -> HasVersionForm(m)
          [] k = 2 -> vin.reference = NoText \/ vin.reference = m
          [] k = 3 -> tag = NoText \/ tag = m
          [] k = 4 -> vin.oldver = UpstreamVersion(m)
          [] k = 5 -> Strip(HeaderSed(FirstLine(vin.readme))) = UpstreamVersion(m)
          [] k = 6 -> GrepQuiet(InstallPattern(m), vin.readme)

\* C22: the versioning check reports the first check that fails in the
\* order grammar, reference, tag, tracker, README header, README install
\* line, and its outcome does not depend on the sources of the later checks;
\* with only the tracker's version changed to 1.9.9, the mismatch reported
\* is the one of the tracker with the manifest.
C22_FirstFailingCheck ==
    vpc = "done" =>
        LET failing == {k \in 1..6 : ~CheckPasses(k)}
            r == vin.reference
            s == vin.sed_out
            t == vin.tag_out
            o == vin.oldver
        IN  /\ vout.failed = (IF failing = {} THEN "none" ELSE CheckNames[MinOf(failing)])
            /\ vout.exit = (IF failing = {} THEN 0 ELSE 1)
            /\ vout.failed = "grammar" => CheckVersioning(NoText, s, NoText, NoText, <<>>) = vout
            /\ vout.failed = "reference" => CheckVersioning(r, s, NoText, NoText, <<>>) = vout
            /\ vout.failed = "tag" => CheckVersioning(r, s, t, NoText, <<>>) = vout
            /\ vout.failed = "tracker" => CheckVersioning(r, s, t, o, <<>>) = vout
            /\ vout.failed = "header" =>
                  CheckVersioning(r, s, t, o, <<FirstLine(vin.readme)>>) = vout
            /\ (failing = {4} /\ o = V_1_9_9) =>
                  vout = Outcome(1, "tracker", <<UpstreamVersion(Strip(s)), V_1_9_9>>)

\* C22's case: every source agrees on 2.0.0-1 but the tracker, which is at
\* 1.9.9.
C22_Witness ==
    /\ vpc = "done" /\ vout.failed = "tracker" /\ vout.logged = <<V_2_0_0, V_1_9_9>>
    /\ vin = [reference |-> V_2_0_0_1, sed_out |-> V_2_0_0_1 \o NewLine,
              tag_out |-> V_2_0_0_1 \o NewLine, oldver |-> V_1_9_9,
              readme |-> <<HeaderAt(V_2_0_0), InstallLine(V_2_0_0_1)>>]

\* The text of the line from position i up to the next white space.
RECURSIVE TokenFrom(_, _)
TokenFrom(line, i) ==
    IF i > Len(line) \/ line[i] \in WhiteSpace
    THEN <<>>
    ELSE <<line[i]>> \o TokenFrom(line, i + 1)

\* The line is a header, "# " first, with a token @v<version> for exactly
\* the version.
HeaderNames(line, version) ==
    /\ Len(line) >= 2 /\ line[1] = "#" /\ line[2] = " "
    /\ \E i \in 1..(Len(line) - 1) :
          /\ line[i] = "@" /\ line[i + 1] = "v"
          /\ TokenFrom(line, i + 2) = version

\* C23: the check of the README header passes only if the first line of
\* the README starts with "# " and has a token @v<version> whose version is
\* the upstream version; a first line without "# ", without @v, or with
\* another version after @v (such as one with a build suffix appended)
\* fails.
C23_HeaderVersion ==
    (vpc = "done" /\ vout.failed \in {"header", "install", "none"}) =>
        LET line == FirstLine(vin.readme)
            upstream == StrippedForm(Strip(vin.sed_out))
        IN  /\ vout.failed \in {"install", "none"} => HeaderNames(line, upstream)
            /\ ~HeaderNames(line, upstream) => vout.failed = "header" /\ vout.exit = 1

\* C24: whenever a scan can start with the cache directory present,
\* repos.jsonl in it holds the whole result of a fetch that succeeded; a run
\* that used the cache got its list from that file and did not fail on it.
C24_CacheIsAFetch ==
    /\ (pc = "start" /\ cacheDir) => JsonLoad(reposFile).ok
    /\ (pc # "start" /\ usedCache) =>
          /\ JsonLoad(reposFile).ok
          /\ errlog.raised # "JSONDecodeError"

\* C25: when a token is given, every request of the fetch carries
\* "Authorization: Bearer <token>" with it, whether an organization is given
\* or not; without one the requests go to the organization "zig-devel".
C25_TokenAlwaysSent ==
    \A k \in 1..Len(crawlSent) :
        /\ options.github_org = None => crawlSent[k].org = "zig-devel"
        /\ options.github_org # None => crawlSent[k].org = options.github_org
        /\ options.github_token # None =>
              crawlSent[k].headers =
                  {[name |-> "Authorization", value |-> <<"Bearer", options.github_token>>]}

\* The fields of a descriptor
Fields == {"name", "private", "archived", "is_template", "default_branch", "has_issues",
           "has_wiki", "has_pages", "has_projects", "has_discussions"}

MaxArches == 2
MaxModes == 2
SeqsUpTo(n, set) == UNION {[1..k -> set] : k \in 0..n}
ArchLists == SeqsUpTo(MaxArches, {"x86_64", "aarch64", "riscv64"})
ModeLists == SeqsUpTo(MaxModes, {"gnu", "musl", "eabi"})
OsNames == {"linux", "macos"}

\* The k-th triplet of the described list: per arch the modes' triplets in
\* order and then the bare one.
TripletAt(os, arches, modes, k) ==
    LET per == Len(modes) + 1
        arch == arches[((k - 1) \div per) + 1]
        m == ((k - 1) % per) + 1
    IN  IF m <= Len(modes) THEN arch \o "-" \o os \o "-" \o modes[m]
        ELSE arch \o "-" \o os

LinuxTriplets ==
    <<"x86_64-linux-gnu", "x86_64-linux-musl", "x86_64-linux",
      "aarch64-linux-gnu", "aarch64-linux-musl", "aarch64-linux">>

\* The k-th (triplet, mode) pair in triplet-major order
PairAt(k) ==
    <<CrosscompileTriplets[((k - 1) \div Len(OptimizeModes)) + 1],
      OptimizeModes[((k - 1) % Len(OptimizeModes)) + 1]>>

\* C27: make_triplets lists, per arch in order, arch-os-mode for every mode
\* in order and then the bare arch-os, also when there are modes;
\* crosscompile builds 12 triplets, 6 of them for linux, in the 2 modes
\* Debug and ReleaseSafe, every pair once in triplet-major order, and a
\* failing build ends the run there with exit code 1.
C27_BuildMatrix ==
    /\ [](/\ \A os \in OsNames : \A arches \in ArchLists : \A modes \in ModeLists :
               LET triplets == MakeTriplets(os, arches, modes)
               IN  /\ Len(triplets) = Len(arches) * (Len(modes) + 1)
                   /\ \A k \in 1..Len(triplets) :
                         triplets[k] = TripletAt(os, arches, modes, k)
          /\ CrosscompileTriplets =
                <<"x86_64-macos", "aarch64-macos", "x86_64-windows", "aarch64-windows">>
                \o LinuxTriplets \o <<"x86_64-netbsd", "x86_64-freebsd">>
          /\ Len(CrosscompileTriplets) = 12
          /\ OptimizeModes = <<"Debug", "ReleaseSafe">>
          /\ Len(built) <= 24
          /\ \A k \in 1..Len(built) : built[k] = PairAt(k)
          /\ \A j, k \in 1..Len(built) : built[j] = built[k] => j = k
          /\ bpc \in {"tests", "done"} => Len(built) = 24
          /\ bpc = "exited" => bexit = 1
          /\ bpc # "exited" => bexit = 0)
    /\ [][(\E returncode \in ReturnCodes \ {0} : Build(returncode))
             => bpc' = "exited" /\ bexit' = 1 /\ built' = Append(built, PairAt(Len(built) + 1))]_vars
    /\ [][bpc = "exited" => built' = built /\ bpc' = "exited"]_vars

\* C27's case: the build of the bare triplet x86_64-linux in ReleaseSafe,
\* the fourteenth of the matrix, has failed and ended the run.
C27_Witness ==
    /\ bpc = "exited" /\ bexit = 1
    /\ Len(built) = 14
    /\ built[14] = <<"x86_64-linux", "ReleaseSafe">>
    /\ built[13] = <<"x86_64-linux", "Debug">>
    /\ built[12] = <<"x86_64-linux-musl", "ReleaseSafe">>

====
